---- MODULE Spec2Model ----
(***************************************************************************)
(* A state-machine model of PowerLogParser (src/main.py): the parser reads *)
(* a Hearthstone Power.log line by line and builds a list of Game trees.   *)
(*                                                                         *)
(* Strings the code inspects character by character (entity tokens,        *)
(* identifiers, values) are sequences of one-character strings, so that    *)
(* ENTITY_RE, str.isdigit and str.startswith are computed, not assumed.    *)
(* A physical line is a record: the line grammar it matches (fmt), its     *)
(* timestamp, the method name, the payload's leading whitespace (indent)   *)
(* and the payload rule it matches (kind) with that rule's groups.         *)
(* Python objects live in a heap: a node's identity is its index in heap,  *)
(* which is also its creation order.  A raised exception ends the run      *)
(* (read() does not catch), keeping the mutations made before the raise.   *)
(***************************************************************************)
EXTENDS Integers, Sequences, FiniteSets, TLC

VARIABLES
    ast,                        \* PowerLogParser.ast: the Game nodes, in order
    heap,                       \* every Node object constructed so far
    game,                       \* PowerLogParser.game
    current_node,               \* PowerLogParser.current_node
    entity_def,                 \* PowerLogParser.entity_def
    current_choice_node,        \* PowerLogParser.current_choice_node
    current_send_choice_node,   \* PowerLogParser.current_send_choice_node
    current_options_node,       \* PowerLogParser.current_options_node
    current_option_node,        \* PowerLogParser.current_option_node
    last_option_node,           \* PowerLogParser.last_option_node
    stderr,                     \* the warnings written to sys.stderr
    exc,                        \* the exception that ended the run, or NoExc
    regex,                      \* read()'s local regex: the locked line grammar
    input,                      \* the lines read() has consumed so far
    pc                          \* "read": in read()'s loop; "done": main() printed
                                \* toxml(); "raised": an exception escaped read()

vars == <<ast, heap, game, current_node, entity_def, current_choice_node,
          current_send_choice_node, current_options_node, current_option_node,
          last_option_node, stderr, exc, regex, input, pc>>

----------------------------------------------------------------------------
(* Bounds of the model *)

\* lines read in the tree-building specification
MaxLinesTree == 5
\* lines read in the player-identity specification
MaxLinesPlayers == 6
\* lines read in the parse-context (cursor) specification
MaxLinesCursors == 4
\* lines read in the reference-resolver specification
MaxLinesResolve == 6
\* option lines read in the reference-resolver specification
MaxOptionLines == 1
\* lines read in the entity-definition specification
MaxLinesTags == 5
\* lines read in the line-format specification
MaxLinesFormats == 4
\* lines read in the scenario specification
MaxLinesScenario == 6
\* lines read in the entity-token specification
MaxLinesNames == 5
\* lines read in the options specification
MaxLinesOptions == 7

----------------------------------------------------------------------------
(* Python values *)

\* an attribute of the parser that was never assigned: reading it raises AttributeError
Unset == -1
\* Python's None where a node reference is expected
None == 0
\* a node without a `parent` attribute (hasattr(node, "parent") is false)
NoParent == 0
\* a node without an `indent_level` attribute
NoIndent == -1
\* None, or a missing attribute, where a string is expected: the regex groups that
\* feed these slots are (\d+) or (\w+) and never empty
NoStr == <<>>
NoExc == "none"

\* what _parse_entity returns: None, a str, or a PlayerID object
RefNone == [t |-> "None"]
RefStr(s) == [t |-> "str", s |-> s]
PlayerID(g, data) == [t |-> "PlayerID", game |-> g, data |-> data]
\* an exception raised while evaluating an expression
Raises(e) == [t |-> "raise", exc |-> e]

Digit == {"0", "1", "2", "3", "4", "5", "6", "7", "8", "9"}

\* str.isdigit(): non-empty and all digits
isdigit(s) == Len(s) > 0 /\ \A i \in 1..Len(s) : s[i] \in Digit

\* str.startswith("[")
startswith_bracket(s) == Len(s) > 0 /\ s[1] = "["

SetMax(S) == CHOOSE x \in S : \A y \in S : y <= x

GameEntityTok == <<"G", "a", "m", "e", "E", "n", "t", "i", "t", "y">>

\* "id=" followed by a digit at position p of data
IdAt(data, p) ==
    /\ p + 3 <= Len(data)
    /\ data[p] = "i" /\ data[p + 1] = "d" /\ data[p + 2] = "="
    /\ data[p + 3] \in Digit

\* the last position of the run of digits that starts at position p + 3
RunEnd(data, p) ==
    SetMax({e \in (p + 3)..Len(data) : \A i \in (p + 3)..e : data[i] \in Digit})

\* ENTITY_RE.match(data).groups()[0], or NoStr when there is no match:
\* "\[.*\s*id=(\d+)\s*.*\]" anchored at the start; the greedy ".*" makes the
\* match take the last "id=<digits>" that still has a "]" after it
ENTITY_RE_match(data) ==
    IF ~startswith_bracket(data) THEN NoStr
    ELSE LET ps == {p \in 2..Len(data) :
                      /\ IdAt(data, p)
                      /\ \E j \in (RunEnd(data, p) + 1)..Len(data) : data[j] = "]"}
         IN  IF ps = {} THEN NoStr
             ELSE SubSeq(data, SetMax(ps) + 3, RunEnd(data, SetMax(ps)))

----------------------------------------------------------------------------
(* Nodes *)

\* Node.__init__: the children list and one attribute per constructor argument
Node(cls, ts, attr) ==
    [cls |-> cls, ts |-> ts, attr |-> attr, nodes |-> <<>>,
     parent |-> NoParent, indent_level |-> NoIndent]

\* GameNode.__init__ followed by the attributes create_game sets; id is the attribute
\* line 405 assigns (NoStr until then) and id_assignments counts the executions of
\* that assignment
GameNode(ts) ==
    [cls |-> "Game", ts |-> ts, attr |-> [none |-> 0], nodes |-> <<>>,
     parent |-> NoParent, indent_level |-> 0,
     first_player |-> NoStr, second_player |-> NoStr,
     players |-> <<>>, playernodes |-> <<>>, id |-> NoStr,
     id_assignments |-> 0]

GameEntityNode(ts, id) == Node("GameEntity", ts, [id |-> id])
PlayerNode(ts, id, playerID, accountHi, accountLo, name) ==
    Node("Player", ts, [id |-> id, playerID |-> playerID, accountHi |-> accountHi,
                        accountLo |-> accountLo, name |-> name])
FullEntityNode(ts, id, cardID) == Node("FullEntity", ts, [id |-> id, cardID |-> cardID])
ShowEntityNode(ts, entity, cardID) ==
    Node("ShowEntity", ts, [entity |-> entity, cardID |-> cardID])
ActionNode(ts, entity, type, index, target) ==
    Node("Action", ts, [entity |-> entity, type |-> type, index |-> index,
                        target |-> target])
MetaDataNode(ts, meta, data, info) ==
    Node("MetaData", ts, [meta |-> meta, data |-> data, info |-> info])
TagNode(ts, tag, value) == Node("Tag", ts, [tag |-> tag, value |-> value])
TagChangeNode(ts, entity, tag, value) ==
    Node("TagChange", ts, [entity |-> entity, tag |-> tag, value |-> value])
HideEntityNode(ts, entity, tag, value) ==
    Node("HideEntity", ts, [entity |-> entity, tag |-> tag, value |-> value])
ChoicesNode(ts, entity, playerID, type, min, max, source) ==
    Node("Choices", ts, [entity |-> entity, playerID |-> playerID, type |-> type,
                         min |-> min, max |-> max, source |-> source])
ChoiceNode(ts, index, entity) == Node("Choice", ts, [index |-> index, entity |-> entity])
SendChoicesNode(ts, entity, type) ==
    Node("SendChoices", ts, [entity |-> entity, type |-> type])
OptionsNode(ts, id) == Node("Options", ts, [id |-> id])
OptionNode(ts, index, type, entity) ==
    Node("Option", ts, [index |-> index, type |-> type, entity |-> entity])
SubOptionNode(ts, index, entity) ==
    Node("SubOption", ts, [index |-> index, entity |-> entity])
OptionTargetNode(ts, index, entity) ==
    Node("Target", ts, [index |-> index, entity |-> entity])
SendOptionNode(ts, option, subOption, target, position) ==
    Node("SendOption", ts, [option |-> option, subOption |-> subOption,
                            target |-> target, position |-> position])

----------------------------------------------------------------------------
(* The parser object, as a value the handlers transform *)

self ==
    [ast |-> ast, heap |-> heap, game |-> game, current_node |-> current_node,
     entity_def |-> entity_def, current_choice_node |-> current_choice_node,
     current_send_choice_node |-> current_send_choice_node,
     current_options_node |-> current_options_node,
     current_option_node |-> current_option_node,
     last_option_node |-> last_option_node, stderr |-> stderr, exc |-> exc]

\* PowerLogParser.__init__: only ast is assigned
NewParser ==
    [ast |-> <<>>, heap |-> <<>>, game |-> Unset, current_node |-> Unset,
     entity_def |-> Unset, current_choice_node |-> Unset,
     current_send_choice_node |-> Unset, current_options_node |-> Unset,
     current_option_node |-> Unset, last_option_node |-> Unset,
     stderr |-> <<>>, exc |-> NoExc]

Raise(s, e) == [s EXCEPT !.exc = e]
Raised(s) == s.exc # NoExc

\* constructing a Node object
New(s, node) == [s EXCEPT !.heap = Append(@, node)]
\* the object the last New constructed
Newest(s) == Len(s.heap)

\* a variant of the warning that writes nothing
Warn_silent(s, handler, data) == s

\* sys.stderr.write of a warning
Warn(s, handler, data) ==
    [s EXCEPT !.stderr = Append(@, [handler |-> handler, data |-> data])]

\* a variant of Node.append that inserts at the front
NodeAppend_front(s, p, n) == [s EXCEPT !.heap[p].nodes = <<n>> \o @]

\* Node.append
NodeAppend(s, p, n) == [s EXCEPT !.heap[p].nodes = Append(@, n)]

\* a dict as the sequence of its items in insertion order
DictKeys(d) == [i \in 1..Len(d) |-> d[i].k]
DictHas(d, k) == \E i \in 1..Len(d) : d[i].k = k
DictGet(d, k) == d[CHOOSE i \in 1..Len(d) : d[i].k = k].v
DictSet(d, k, v) ==
    IF DictHas(d, k)
    THEN [i \in 1..Len(d) |-> IF d[i].k = k THEN [k |-> k, v |-> v] ELSE d[i]]
    ELSE Append(d, [k |-> k, v |-> v])

\* PlayerID.__str__
PlayerID_str(h, ref) ==
    IF DictHas(h[ref.game].players, ref.data)
    THEN DictGet(h[ref.game].players, ref.data)
    ELSE <<"UNKNOWN PLAYER: ", "'">> \o ref.data \o <<"'">>

\* a variant of _parse_entity that tests isdigit() before the comparison with "0"
parse_entity_digits_first(s, data) ==
    IF data = NoStr THEN RefNone
    ELSE IF ENTITY_RE_match(data) # NoStr THEN RefStr(ENTITY_RE_match(data))
    ELSE IF isdigit(data) THEN RefStr(data)
    ELSE IF data = <<"0">> THEN RefNone
    ELSE IF data = GameEntityTok
    THEN IF s.game = Unset \/ s.heap[s.game].id = NoStr
         THEN Raises("AttributeError")
         ELSE RefStr(s.heap[s.game].id)
    ELSE IF s.game = Unset THEN Raises("AttributeError")
    ELSE IF DictHas(s.heap[s.game].players, data)
         THEN RefStr(DictGet(s.heap[s.game].players, data))
         ELSE PlayerID(s.game, data)

\* PowerLogParser._parse_entity
parse_entity(s, data) ==
    IF data = NoStr THEN RefNone
    ELSE IF ENTITY_RE_match(data) # NoStr THEN RefStr(ENTITY_RE_match(data))
    ELSE IF data = <<"0">> THEN RefNone
    ELSE IF data = GameEntityTok
    THEN IF s.game = Unset \/ s.heap[s.game].id = NoStr
         THEN Raises("AttributeError")
         ELSE RefStr(s.heap[s.game].id)
    ELSE IF isdigit(data) THEN RefStr(data)
    ELSE IF s.game = Unset THEN Raises("AttributeError")
    ELSE IF DictHas(s.heap[s.game].players, data)
         THEN RefStr(DictGet(s.heap[s.game].players, data))
         ELSE PlayerID(s.game, data)

\* GameNode.register_player_id, on game node g
register_player_id(s, g, entity, id) ==
    LET s1 == [s EXCEPT !.heap[g].players = DictSet(@, entity, id)]
    IN  IF ~DictHas(s.heap[g].playernodes, id) THEN Raise(s1, "KeyError")
        ELSE [s1 EXCEPT !.heap[DictGet(s.heap[g].playernodes, id)].attr.name = entity]

\* a variant of update_current_player that registers the name by elimination: to
\* the player node that is not the first player
update_current_player_other(s, g, entity, value) ==
    IF value = <<"0">> /\ s.heap[g].first_player # NoStr
    THEN LET first == s.heap[g].first_player
             others == SelectSeq(DictKeys(s.heap[g].playernodes), LAMBDA p : p # first)
         IN  IF others = <<>> THEN Raise(s, "IndexError")
             ELSE LET s1 == register_player_id(s, g, entity, others[1])
                  IN  [s1 EXCEPT !.heap[g].second_player = others[1]]
    ELSE IF value = <<"1">> /\ s.heap[g].second_player # NoStr
    THEN LET s1 == register_player_id(s, g, entity, s.heap[g].second_player)
         IN  IF Raised(s1) THEN s1
             ELSE [s1 EXCEPT !.heap[g].second_player = NoStr]
    ELSE s

\* GameNode.update_current_player, on game node g
update_current_player(s, g, entity, value) ==
    IF value = <<"0">> /\ s.heap[g].first_player # NoStr
    THEN LET first == s.heap[g].first_player
             s1 == register_player_id(s, g, entity, first)
             others == SelectSeq(DictKeys(s.heap[g].playernodes), LAMBDA p : p # first)
         IN  IF Raised(s1) THEN s1
             ELSE IF others = <<>> THEN Raise(s1, "IndexError")
             ELSE [s1 EXCEPT !.heap[g].second_player = others[1]]
    ELSE IF value = <<"1">> /\ s.heap[g].second_player # NoStr
    THEN LET s1 == register_player_id(s, g, entity, s.heap[g].second_player)
         IN  IF Raised(s1) THEN s1
             ELSE [s1 EXCEPT !.heap[g].second_player = NoStr]
    ELSE s

----------------------------------------------------------------------------
(* handle_data: the main event grammar.  d is the payload after lstrip(), as the
   rule it matches and that rule's groups; indent_level is the stripped width. *)

\* a variant of the ACTION_TAG_RE branch that reports a missing entity-definition
\* context as a warning and goes on
handle_tag_warn(s, ts, d) ==
    IF s.entity_def = None THEN Warn(s, "data", d.tag)
    ELSE LET s1 == IF d.tag = "CURRENT_PLAYER"
                   THEN IF s.entity_def = Unset THEN Raise(s, "AttributeError")
                        ELSE IF s.heap[s.entity_def].cls # "Player"
                        THEN Raise(s, "AssertionError")
                        ELSE IF s.game = Unset THEN Raise(s, "AttributeError")
                        ELSE [s EXCEPT !.heap[s.game].first_player =
                                            s.heap[s.entity_def].attr.id]
                   ELSE s
             s2 == New(s1, TagNode(ts, d.tag, d.value))
         IN  IF Raised(s1) THEN s1
             ELSE IF s2.entity_def = Unset THEN Raise(s2, "AttributeError")
             ELSE NodeAppend(s2, s2.entity_def, Newest(s2))

\* the ACTION_TAG_RE branch: "tag=X value=Y"
handle_tag(s, ts, d) ==
    LET s1 == IF d.tag = "CURRENT_PLAYER"
              THEN IF s.entity_def = Unset THEN Raise(s, "AttributeError")
                   ELSE IF s.entity_def = None \/ s.heap[s.entity_def].cls # "Player"
                   THEN Raise(s, "AssertionError")
                   ELSE IF s.game = Unset THEN Raise(s, "AttributeError")
                   ELSE [s EXCEPT !.heap[s.game].first_player =
                                       s.heap[s.entity_def].attr.id]
              ELSE s
        s2 == New(s1, TagNode(ts, d.tag, d.value))
    IN  IF Raised(s1) THEN s1
        ELSE IF s2.entity_def = Unset THEN Raise(s2, "AttributeError")
        ELSE IF s2.entity_def = None THEN Raise(s2, "AssertionError")
        ELSE NodeAppend(s2, s2.entity_def, Newest(s2))

\* the identity signals of the ACTION_TAGCHANGE_RE branch (lines 337-341)
tag_change_players(s, d) ==
    IF d.tag = "ENTITY_ID"
    THEN IF ~isdigit(d.entity) /\ ~startswith_bracket(d.entity)
            /\ d.entity # GameEntityTok
         THEN IF s.game = Unset THEN Raise(s, "AttributeError")
              ELSE register_player_id(s, s.game, d.entity, d.value)
         ELSE s
    ELSE IF d.tag = "CURRENT_PLAYER"
    THEN IF s.game = Unset THEN Raise(s, "AttributeError")
         ELSE update_current_player(s, s.game, d.entity, d.value)
    ELSE s

\* the end of the ACTION_TAGCHANGE_RE branch (lines 345-350): node n is appended
\* at the current position, one level up when the indentation is shallower
tag_change_append(s, n, indent_level) ==
    IF s.current_node = Unset THEN Raise(s, "AttributeError")
    ELSE IF s.heap[s.current_node].indent_level > indent_level
    THEN IF s.heap[s.current_node].parent = NoParent THEN Raise(s, "AttributeError")
         ELSE LET p == s.heap[s.current_node].parent
              IN  [s EXCEPT !.current_node = p,
                            !.heap[p].nodes = Append(@, n),
                            !.heap[p].indent_level = indent_level]
    ELSE [s EXCEPT !.heap[s.current_node].nodes = Append(@, n),
                   !.heap[s.current_node].indent_level = indent_level]

\* the ACTION_TAGCHANGE_RE branch: "TAG_CHANGE Entity=E tag=T value=V"
handle_tag_change(s, ts, indent_level, d) ==
    LET s1 == tag_change_players([s EXCEPT !.entity_def = None], d)
        entity == parse_entity(s1, d.entity)
        s2 == New(s1, TagChangeNode(ts, entity, d.tag, d.value))
    IN  IF Raised(s1) THEN s1
        ELSE IF entity.t = "raise" THEN Raise(s1, entity.exc)
        ELSE tag_change_append(s2, Newest(s2), indent_level)

\* self.current_node.append(node) for the node just constructed
append_at_current(s) ==
    IF s.current_node = Unset THEN Raise(s, "AttributeError")
    ELSE NodeAppend(s, s.current_node, Newest(s))

\* the ACTION_FULLENTITY_RE_1 / _2 branch
handle_full_entity(s, ts, d) ==
    LET entity == parse_entity(s, d.entity)
        s1 == New(s, FullEntityNode(ts, entity, d.cardID))
    IN  IF entity.t = "raise" THEN Raise(s, entity.exc)
        ELSE append_at_current([s1 EXCEPT !.entity_def = Newest(s1)])

\* the ACTION_SHOWENTITY_RE branch
handle_show_entity(s, ts, d) ==
    LET entity == parse_entity(s, d.entity)
        s1 == New(s, ShowEntityNode(ts, entity, d.cardID))
    IN  IF entity.t = "raise" THEN Raise(s, entity.exc)
        ELSE append_at_current([s1 EXCEPT !.entity_def = Newest(s1)])

\* the ACTION_HIDEENTITY_RE branch
handle_hide_entity(s, ts, d) ==
    LET entity == parse_entity(s, d.entity)
    IN  IF entity.t = "raise" THEN Raise(s, entity.exc)
        ELSE append_at_current(New(s, HideEntityNode(ts, entity, d.tag, d.value)))

\* the ACTION_START_RE branch: the new block becomes the current position
handle_action_start(s, ts, indent_level, d) ==
    LET entity == parse_entity(s, d.entity)
        target == parse_entity(s, d.target)
        s1 == New(s, ActionNode(ts, entity, d.type, d.index, target))
        n == Newest(s1)
    IN  IF entity.t = "raise" THEN Raise(s, entity.exc)
        ELSE IF target.t = "raise" THEN Raise(s, target.exc)
        ELSE IF s1.current_node = Unset THEN Raise(s1, "AttributeError")
        ELSE [s1 EXCEPT !.heap[s1.current_node].nodes = Append(@, n),
                        !.heap[n].parent = s1.current_node,
                        !.heap[n].indent_level = indent_level,
                        !.current_node = n]

\* the ACTION_METADATA_RE branch
handle_meta_data(s, ts, d) ==
    LET data == parse_entity(s, d.data)
    IN  IF data.t = "raise" THEN Raise(s, data.exc)
        ELSE append_at_current(New(s, MetaDataNode(ts, d.meta, data, d.info)))

\* the ACTION_CREATEGAME_RE branch: "GameEntity EntityID=N"
handle_game_entity(s, ts, d) ==
    IF d.id # <<"1">> THEN Raise(s, "AssertionError")
    ELSE IF s.game = Unset THEN Raise(s, "AttributeError")
    ELSE LET s1 == New([s EXCEPT !.heap[s.game].id = d.id,
                                 !.heap[s.game].id_assignments = @ + 1],
                       GameEntityNode(ts, d.id))
             s2 == append_at_current(s1)
         IN  IF Raised(s2) THEN s2 ELSE [s2 EXCEPT !.entity_def = Newest(s1)]

\* the ACTION_CREATEGAME_PLAYER_RE branch: "Player EntityID=N PlayerID=..."
handle_player(s, ts, d) ==
    LET s1 == New(s, PlayerNode(ts, d.id, d.playerID, d.accountHi, d.accountLo, NoStr))
        s2 == append_at_current([s1 EXCEPT !.entity_def = Newest(s1)])
    IN  IF Raised(s2) THEN s2
        ELSE IF s2.game = Unset THEN Raise(s2, "AttributeError")
        ELSE [s2 EXCEPT !.heap[s2.game].playernodes = DictSet(@, d.id, Newest(s1))]

\* a variant of create_game that replaces the list instead of appending to it
create_game_replace(s, ts) ==
    LET s1 == New(s, GameNode(ts))
    IN  [s1 EXCEPT !.game = Newest(s1),
                   !.current_node = Newest(s1),
                   !.ast = <<Newest(s1)>>]

\* PowerLogParser.create_game
create_game(s, ts) ==
    LET s1 == New(s, GameNode(ts))
    IN  [s1 EXCEPT !.game = Newest(s1),
                   !.current_node = Newest(s1),
                   !.ast = Append(@, Newest(s1))]

\* a variant of the ACTION_END branch with the warning of line 427 enabled
handle_action_end_warn(s) ==
    IF s.current_node = Unset THEN Raise(s, "AttributeError")
    ELSE IF s.heap[s.current_node].parent = NoParent THEN Warn(s, "data", "no parent")
    ELSE [s EXCEPT !.current_node = s.heap[s.current_node].parent]

\* the ACTION_END branch
handle_action_end(s) ==
    IF s.current_node = Unset THEN Raise(s, "AttributeError")
    ELSE IF s.heap[s.current_node].parent = NoParent THEN s
    ELSE [s EXCEPT !.current_node = s.heap[s.current_node].parent]

\* PowerLogParser.handle_data
handle_data(s, ts, indent_level, d) ==
    CASE d.kind = "TAG" -> handle_tag(s, ts, d)
      [] d.kind = "TAG_CHANGE" -> handle_tag_change(s, ts, indent_level, d)
      [] d.kind = "FULL_ENTITY" -> handle_full_entity(s, ts, d)
      [] d.kind = "SHOW_ENTITY" -> handle_show_entity(s, ts, d)
      [] d.kind = "HIDE_ENTITY" -> handle_hide_entity(s, ts, d)
      [] d.kind = "ACTION_START" -> handle_action_start(s, ts, indent_level, d)
      [] d.kind = "META_DATA" -> handle_meta_data(s, ts, d)
      [] d.kind = "GameEntity" -> handle_game_entity(s, ts, d)
      [] d.kind = "Player" -> handle_player(s, ts, d)
      [] d.kind = "CREATE_GAME" -> create_game(s, ts)
      [] d.kind = "ACTION_END" -> handle_action_end(s)
      [] OTHER -> Warn(s, "data", d.raw)

----------------------------------------------------------------------------
(* The other four grammars *)

\* PowerLogParser.handle_send_choices
handle_send_choices(s, ts, d) ==
    CASE d.kind = "CHOICETYPE" ->
            LET s1 == append_at_current(New(s, SendChoicesNode(ts, d.id, d.type)))
            IN  IF Raised(s1) THEN s1
                ELSE [s1 EXCEPT !.current_send_choice_node = Newest(s1)]
      [] d.kind = "ENTITIES" ->
            LET entity == parse_entity(s, d.entity)
                s1 == New(s, ChoiceNode(ts, d.index, entity))
            IN  IF entity.t = "raise" THEN Raise(s, entity.exc)
                ELSE IF s1.current_send_choice_node = Unset
                THEN Raise(s1, "AttributeError")
                ELSE NodeAppend(s1, s1.current_send_choice_node, Newest(s1))
      [] OTHER -> Warn(s, "sent choices", d.raw)

\* PowerLogParser.handle_choices: a payload no rule matches falls off the end
handle_choices(s, ts, d) ==
    CASE d.kind = "CHOICES" ->
            LET s1 == append_at_current(
                        New(s, ChoicesNode(ts, d.id, d.playerID, d.type, d.min, d.max,
                                           RefNone)))
            IN  IF Raised(s1) THEN s1
                ELSE [s1 EXCEPT !.current_choice_node = Newest(s1)]
      [] d.kind = "SOURCE" ->
            LET entity == parse_entity(s, d.entity)
            IN  IF entity.t = "raise" THEN Raise(s, entity.exc)
                ELSE IF s.current_choice_node = Unset THEN Raise(s, "AttributeError")
                ELSE [s EXCEPT !.heap[s.current_choice_node].attr.source = entity]
      [] d.kind = "ENTITIES" ->
            LET entity == parse_entity(s, d.entity)
                s1 == New(s, ChoiceNode(ts, d.index, entity))
            IN  IF entity.t = "raise" THEN Raise(s, entity.exc)
                ELSE IF s1.current_choice_node = Unset THEN Raise(s1, "AttributeError")
                ELSE NodeAppend(s1, s1.current_choice_node, Newest(s1))
      [] OTHER -> s

\* a variant of handle_options that appends a target under the current Option,
\* also after a subOption line
handle_options_target_under_option(s, ts, d) ==
    CASE d.kind = "ENTITY" ->
            LET s1 == New(s, OptionsNode(ts, d.id))
            IN  append_at_current([s1 EXCEPT !.current_options_node = Newest(s1)])
      [] d.kind = "OPTION" ->
            LET entity == parse_entity(s, d.entity)
                s1 == New(s, OptionNode(ts, d.index, d.type, entity))
            IN  IF entity.t = "raise" THEN Raise(s, entity.exc)
                ELSE IF s1.current_options_node = Unset THEN Raise(s1, "AttributeError")
                ELSE LET s2 == NodeAppend(s1, s1.current_options_node, Newest(s1))
                     IN  [s2 EXCEPT !.current_option_node = Newest(s1),
                                    !.last_option_node = Newest(s1)]
      [] d.kind = "SUBOPTION" ->
            LET entity == parse_entity(s, d.entity)
            IN  IF entity.t = "raise" THEN Raise(s, entity.exc)
                ELSE IF d.subop_type = "subOption"
                THEN LET s1 == New(s, SubOptionNode(ts, d.index, entity))
                     IN  IF s1.current_option_node = Unset
                         THEN Raise(s1, "AttributeError")
                         ELSE LET s2 == NodeAppend(s1, s1.current_option_node,
                                                   Newest(s1))
                              IN  [s2 EXCEPT !.last_option_node = Newest(s1)]
                ELSE LET s1 == New(s, OptionTargetNode(ts, d.index, entity))
                     IN  IF s1.current_option_node = Unset
                         THEN Raise(s1, "AttributeError")
                         ELSE NodeAppend(s1, s1.current_option_node, Newest(s1))
      [] OTHER -> Warn(s, "options", d.raw)

\* PowerLogParser.handle_options
handle_options(s, ts, d) ==
    CASE d.kind = "ENTITY" ->
            LET s1 == New(s, OptionsNode(ts, d.id))
            IN  append_at_current([s1 EXCEPT !.current_options_node = Newest(s1)])
      [] d.kind = "OPTION" ->
            LET entity == parse_entity(s, d.entity)
                s1 == New(s, OptionNode(ts, d.index, d.type, entity))
            IN  IF entity.t = "raise" THEN Raise(s, entity.exc)
                ELSE IF s1.current_options_node = Unset THEN Raise(s1, "AttributeError")
                ELSE LET s2 == NodeAppend(s1, s1.current_options_node, Newest(s1))
                     IN  [s2 EXCEPT !.current_option_node = Newest(s1),
                                    !.last_option_node = Newest(s1)]
      [] d.kind = "SUBOPTION" ->
            LET entity == parse_entity(s, d.entity)
            IN  IF entity.t = "raise" THEN Raise(s, entity.exc)
                ELSE IF d.subop_type = "subOption"
                THEN LET s1 == New(s, SubOptionNode(ts, d.index, entity))
                     IN  IF s1.current_option_node = Unset
                         THEN Raise(s1, "AttributeError")
                         ELSE LET s2 == NodeAppend(s1, s1.current_option_node,
                                                   Newest(s1))
                              IN  [s2 EXCEPT !.last_option_node = Newest(s1)]
                ELSE LET s1 == New(s, OptionTargetNode(ts, d.index, entity))
                     IN  IF s1.last_option_node = Unset
                         THEN Raise(s1, "AttributeError")
                         ELSE NodeAppend(s1, s1.last_option_node, Newest(s1))
      [] OTHER -> Warn(s, "options", d.raw)

\* PowerLogParser.handle_send_option: a payload the rule does not match is dropped
handle_send_option(s, ts, d) ==
    IF d.kind = "SEND_OPTION"
    THEN append_at_current(
            New(s, SendOptionNode(ts, d.option, d.subOption, d.target, d.position)))
    ELSE s

\* PowerLogParser.add_data: dispatch on the method name
add_data(s, ts, method, indent_level, d) ==
    CASE method = "GameState.DebugPrintPower" -> handle_data(s, ts, indent_level, d)
      [] method = "GameState.SendChoices" -> handle_send_choices(s, ts, d)
      [] method = "GameState.DebugPrintChoices" -> handle_choices(s, ts, d)
      [] method = "GameState.DebugPrintOptions" -> handle_options(s, ts, d)
      [] method = "GameState.SendOption" -> handle_send_option(s, ts, d)
      [] OTHER -> s

----------------------------------------------------------------------------
(* read(): one iteration of the loop over f.readlines() *)

\* a variant of the grammar selection that takes the grammar of every matching
\* line, locked or not
lock_regex_relock(rx, line) ==
    IF line.fmt = "POWERLOG" THEN "POWERLOG"
    ELSE IF line.fmt = "OUTPUTLOG" THEN "OUTPUTLOG"
    ELSE rx

\* the value of regex after the line: the first grammar that matches is kept
lock_regex(rx, line) ==
    IF rx # "None" THEN rx
    ELSE IF line.fmt = "POWERLOG" THEN "POWERLOG"
    ELSE IF line.fmt = "OUTPUTLOG" THEN "OUTPUTLOG"
    ELSE "None"

\* whether sre is a match: the line matches the grammar now locked
matches(rx, line) == lock_regex(rx, line) # "None" /\ line.fmt = lock_regex(rx, line)

\* sre.groups()[0]: OUTPUTLOG_LINE_RE's first group is empty
line_ts(line) == IF line.fmt = "OUTPUTLOG" THEN "" ELSE line.ts

\* the parser after one line
read_line(s, rx, line) ==
    IF matches(rx, line)
    THEN add_data(s, line_ts(line), line.method, line.indent, line.data)
    ELSE s

\* the assignment of the parser's fields from the value s
Becomes(s) ==
    /\ ast' = s.ast
    /\ heap' = s.heap
    /\ game' = s.game
    /\ current_node' = s.current_node
    /\ entity_def' = s.entity_def
    /\ current_choice_node' = s.current_choice_node
    /\ current_send_choice_node' = s.current_send_choice_node
    /\ current_options_node' = s.current_options_node
    /\ current_option_node' = s.current_option_node
    /\ last_option_node' = s.last_option_node
    /\ stderr' = s.stderr
    /\ exc' = s.exc

\* read() consumes one more line, while fewer than max lines were read
Step(max, line) ==
    /\ Len(input) < max
    /\ input' = Append(input, line)
    /\ regex' = lock_regex(regex, line)
    /\ \E s \in {read_line(self, regex, line)} :
          /\ Becomes(s)
          /\ pc' = IF Raised(s) THEN "raised" ELSE "read"

\* f.readlines() is exhausted: read() returns and main() prints toxml()
EndOfInput ==
    /\ pc = "read"
    /\ pc' = "done"
    /\ UNCHANGED <<ast, heap, game, current_node, entity_def, current_choice_node,
                   current_send_choice_node, current_options_node,
                   current_option_node, last_option_node, stderr, exc, regex, input>>

\* PowerLogParser() in main(): __init__ assigns ast only
Init ==
    /\ ast = NewParser.ast
    /\ heap = NewParser.heap
    /\ game = NewParser.game
    /\ current_node = NewParser.current_node
    /\ entity_def = NewParser.entity_def
    /\ current_choice_node = NewParser.current_choice_node
    /\ current_send_choice_node = NewParser.current_send_choice_node
    /\ current_options_node = NewParser.current_options_node
    /\ current_option_node = NewParser.current_option_node
    /\ last_option_node = NewParser.last_option_node
    /\ stderr = NewParser.stderr
    /\ exc = NewParser.exc
    /\ regex = "None"
    /\ input = <<>>
    /\ pc = "read"

----------------------------------------------------------------------------
(* The lines of the input.  An action reads one line of one shape; the sets its
   groups are drawn from come with the profile p of the specification. *)

Bob == <<"B", "o", "b">>
Alice == <<"A", "l", "i", "c", "e">>
\* "[id=4]"
Ent4 == <<"[", "i", "d", "=", "4", "]">>

Line(fmt, method, indent, d) ==
    [fmt |-> fmt, ts |-> IF fmt = "POWERLOG" THEN "12:00:00" ELSE "",
     method |-> method, indent |-> indent, data |-> d]

MainLine(fmt, indent, d) == Line(fmt, "GameState.DebugPrintPower", indent, d)

\* "CREATE_GAME"
CreateGameLine(p) ==
    \E f \in p.fmts :
        /\ pc = "read"
        /\ Step(p.max, MainLine(f, 0, [kind |-> "CREATE_GAME"]))

\* "GameEntity EntityID=1"
GameEntityLine(p) ==
    \E f \in p.fmts, id \in p.geids :
        /\ pc = "read"
        /\ Step(p.max, MainLine(f, 4, [kind |-> "GameEntity", id |-> id]))

\* "Player EntityID=2 PlayerID=1 GameAccountId=[hi=1 lo=1]"
PlayerLine(p) ==
    \E f \in p.fmts, id \in p.ids :
        /\ pc = "read"
        /\ Step(p.max, MainLine(f, 4, [kind |-> "Player", id |-> id, playerID |-> <<"1">>,
                                    accountHi |-> <<"1">>, accountLo |-> <<"1">>]))

\* "tag=ZONE value=PLAY"
TagLine(p) ==
    \E f \in p.fmts, tag \in p.tags :
        /\ pc = "read"
        /\ Step(p.max, MainLine(f, 8, [kind |-> "TAG", tag |-> tag, value |-> <<"1">>]))

\* "TAG_CHANGE Entity=Bob tag=ENTITY_ID value=2"
TagChangeLine(p) ==
    \E f \in p.fmts, i \in p.indents, e \in p.ents, tv \in p.tagvals :
        /\ pc = "read"
        /\ Step(p.max, MainLine(f, i, [kind |-> "TAG_CHANGE", entity |-> e,
                                    tag |-> tv[1], value |-> tv[2]]))

\* "FULL_ENTITY - Creating ID=4 CardID=EX1_001"
FullEntityLine(p) ==
    \E f \in p.fmts :
        /\ pc = "read"
        /\ Step(p.max, MainLine(f, 0, [kind |-> "FULL_ENTITY", entity |-> <<"4">>,
                                    cardID |-> "EX1_001"]))

\* "SHOW_ENTITY - Updating Entity=[id=4] CardID=EX1_001"
ShowEntityLine(p) ==
    \E f \in p.fmts, e \in p.refs :
        /\ pc = "read"
        /\ Step(p.max, MainLine(f, 0, [kind |-> "SHOW_ENTITY", entity |-> e,
                                    cardID |-> "EX1_001"]))

\* "HIDE_ENTITY - Entity=[id=4] tag=ZONE value=DECK"
HideEntityLine(p) ==
    \E f \in p.fmts :
        /\ pc = "read"
        /\ Step(p.max, MainLine(f, 0, [kind |-> "HIDE_ENTITY", entity |-> Ent4,
                                    tag |-> "ZONE", value |-> <<"1">>]))

\* "ACTION_START Entity=[id=4] SubType=PLAY Index=0 Target=0"
ActionStartLine(p) ==
    \E f \in p.fmts, i \in p.indents :
        /\ pc = "read"
        /\ Step(p.max, MainLine(f, i, [kind |-> "ACTION_START", entity |-> Ent4,
                                    type |-> "PLAY", index |-> <<"0">>,
                                    target |-> <<"0">>]))

\* "ACTION_END"
ActionEndLine(p) ==
    \E f \in p.fmts :
        /\ pc = "read"
        /\ Step(p.max, MainLine(f, 0, [kind |-> "ACTION_END"]))

\* "META_DATA - Meta=TARGET Data=[id=4] Info=1"
MetaDataLine(p) ==
    \E f \in p.fmts, e \in p.refs :
        /\ pc = "read"
        /\ Step(p.max, MainLine(f, 0, [kind |-> "META_DATA", meta |-> "TARGET",
                                    data |-> e, info |-> <<"1">>]))

\* a payload no rule of handle_data matches
UnknownDataLine(p) ==
    \E f \in p.fmts :
        /\ pc = "read"
        /\ Step(p.max, MainLine(f, 0, [kind |-> "UNKNOWN", raw |-> "garbage"]))

\* DebugPrintChoices: "id=1 PlayerId=1 ChoiceType=MULLIGAN CountMin=0 CountMax=3"
ChoicesLine(p) ==
    \E f \in p.fmts :
        /\ pc = "read"
        /\ Step(p.max, Line(f, "GameState.DebugPrintChoices", 0,
                         [kind |-> "CHOICES", id |-> <<"1">>, playerID |-> <<"1">>,
                          type |-> "MULLIGAN", min |-> <<"0">>, max |-> <<"3">>]))

\* DebugPrintChoices: "Source=GameEntity"
ChoicesSourceLine(p) ==
    \E f \in p.fmts, e \in p.refs :
        /\ pc = "read"
        /\ Step(p.max, Line(f, "GameState.DebugPrintChoices", 2,
                         [kind |-> "SOURCE", entity |-> e]))

\* DebugPrintChoices: "Entities[0]=[id=4]"
ChoicesEntitiesLine(p) ==
    \E f \in p.fmts :
        /\ pc = "read"
        /\ Step(p.max, Line(f, "GameState.DebugPrintChoices", 2,
                         [kind |-> "ENTITIES", index |-> <<"0">>, entity |-> Ent4]))

\* DebugPrintChoices: a payload no rule of handle_choices matches
ChoicesUnknownLine(p) ==
    \E f \in p.fmts :
        /\ pc = "read"
        /\ Step(p.max, Line(f, "GameState.DebugPrintChoices", 0,
                         [kind |-> "UNKNOWN", raw |-> "garbage"]))

\* SendChoices: "id=1 ChoiceType=MULLIGAN"
SendChoicesLine(p) ==
    \E f \in p.fmts :
        /\ pc = "read"
        /\ Step(p.max, Line(f, "GameState.SendChoices", 0,
                         [kind |-> "CHOICETYPE", id |-> <<"1">>, type |-> "MULLIGAN"]))

\* SendChoices: "m_chosenEntities[0]=[id=4]"
SendChoicesEntitiesLine(p) ==
    \E f \in p.fmts :
        /\ pc = "read"
        /\ Step(p.max, Line(f, "GameState.SendChoices", 2,
                         [kind |-> "ENTITIES", index |-> <<"0">>, entity |-> Ent4]))

\* SendChoices: a payload no rule of handle_send_choices matches
SendChoicesUnknownLine(p) ==
    \E f \in p.fmts :
        /\ pc = "read"
        /\ Step(p.max, Line(f, "GameState.SendChoices", 0,
                         [kind |-> "UNKNOWN", raw |-> "garbage"]))

\* DebugPrintOptions: "id=1"
OptionsLine(p) ==
    \E f \in p.fmts :
        /\ pc = "read"
        /\ Step(p.max, Line(f, "GameState.DebugPrintOptions", 0,
                         [kind |-> "ENTITY", id |-> <<"1">>]))

IsOptionLine(line) == line.data.kind = "OPTION"

\* DebugPrintOptions: "option 0 type=POWER mainEntity=[id=4]"; at most p.maxopt of them
OptionLine(p) ==
    \E f \in p.fmts, e \in p.refs :
        /\ pc = "read"
        /\ Len(SelectSeq(input, IsOptionLine)) < p.maxopt
        /\ Step(p.max, Line(f, "GameState.DebugPrintOptions", 2,
                         [kind |-> "OPTION", index |-> <<"0">>, type |-> "POWER",
                          entity |-> e]))

\* DebugPrintOptions: "subOption 0 entity=[id=4]" and "target 0 entity=[id=4]"
SubOptionLine(p) ==
    \E f \in p.fmts, st \in {"subOption", "target"} :
        /\ pc = "read"
        /\ Step(p.max, Line(f, "GameState.DebugPrintOptions", 4,
                         [kind |-> "SUBOPTION", subop_type |-> st, index |-> <<"0">>,
                          entity |-> Ent4]))

\* DebugPrintOptions: a payload no rule of handle_options matches
OptionsUnknownLine(p) ==
    \E f \in p.fmts :
        /\ pc = "read"
        /\ Step(p.max, Line(f, "GameState.DebugPrintOptions", 0,
                         [kind |-> "UNKNOWN", raw |-> "garbage"]))

\* SendOption: "selectedOption=1 selectedSubOption=-1 selectedTarget=0 selectedPosition=0"
SendOptionLine(p) ==
    \E f \in p.fmts :
        /\ pc = "read"
        /\ Step(p.max, Line(f, "GameState.SendOption", 0,
                         [kind |-> "SEND_OPTION", option |-> <<"1">>,
                          subOption |-> <<"-", "1">>, target |-> <<"0">>,
                          position |-> <<"0">>]))

\* SendOption: a payload SEND_OPTION_RE does not match
SendOptionUnknownLine(p) ==
    \E f \in p.fmts :
        /\ pc = "read"
        /\ Step(p.max, Line(f, "GameState.SendOption", 0,
                         [kind |-> "UNKNOWN", raw |-> "garbage"]))

----------------------------------------------------------------------------
(* The tree-building specification: the main event grammar *)

TreeProfile ==
    [max |-> MaxLinesTree, fmts |-> {"POWERLOG"}, indents |-> {0, 1, 2},
     ents |-> {Ent4}, tagvals |-> {<<"ZONE", <<"1">>>>}, refs |-> {GameEntityTok},
     geids |-> {<<"1">>, <<"2">>}, ids |-> {<<"2">>}, tags |-> {"ZONE"},
     maxopt |-> MaxLinesTree]

Next ==
    \/ CreateGameLine(TreeProfile)
    \/ GameEntityLine(TreeProfile)
    \/ PlayerLine(TreeProfile)
    \/ TagLine(TreeProfile)
    \/ TagChangeLine(TreeProfile)
    \/ FullEntityLine(TreeProfile)
    \/ ActionStartLine(TreeProfile)
    \/ ActionEndLine(TreeProfile)
    \/ MetaDataLine(TreeProfile)
    \/ UnknownDataLine(TreeProfile)

Spec == Init /\ [][Next]_vars

----------------------------------------------------------------------------
(* The parse-context specification: the cursors of the five grammars *)

CursorsProfile ==
    [max |-> MaxLinesCursors, fmts |-> {"POWERLOG"}, indents |-> {0},
     ents |-> {Ent4}, tagvals |-> {<<"ZONE", <<"1">>>>}, refs |-> {Ent4},
     geids |-> {<<"1">>}, ids |-> {<<"2">>}, tags |-> {"ZONE"},
     maxopt |-> MaxLinesCursors]

NextCursors ==
    \/ CreateGameLine(CursorsProfile)
    \/ FullEntityLine(CursorsProfile)
    \/ ShowEntityLine(CursorsProfile)
    \/ HideEntityLine(CursorsProfile)
    \/ TagLine(CursorsProfile)
    \/ TagChangeLine(CursorsProfile)
    \/ ChoicesLine(CursorsProfile)
    \/ ChoicesSourceLine(CursorsProfile)
    \/ ChoicesEntitiesLine(CursorsProfile)
    \/ ChoicesUnknownLine(CursorsProfile)
    \/ SendChoicesLine(CursorsProfile)
    \/ SendChoicesEntitiesLine(CursorsProfile)
    \/ SendChoicesUnknownLine(CursorsProfile)
    \/ OptionsLine(CursorsProfile)
    \/ OptionLine(CursorsProfile)
    \/ SubOptionLine(CursorsProfile)
    \/ OptionsUnknownLine(CursorsProfile)
    \/ SendOptionLine(CursorsProfile)
    \/ SendOptionUnknownLine(CursorsProfile)

SpecCursors == Init /\ [][NextCursors]_vars

----------------------------------------------------------------------------
(* The player-identity specification: the two identity signals, then rendering *)

PlayersProfile ==
    [max |-> MaxLinesPlayers, fmts |-> {"POWERLOG"}, indents |-> {0},
     ents |-> {Bob},
     tagvals |-> {<<"ENTITY_ID", <<"2">>>>, <<"ENTITY_ID", <<"3">>>>,
                  <<"CURRENT_PLAYER", <<"0">>>>, <<"CURRENT_PLAYER", <<"1">>>>},
     refs |-> {Bob}, geids |-> {<<"1">>}, ids |-> {<<"2">>, <<"3">>},
     tags |-> {"CURRENT_PLAYER"}, maxopt |-> MaxLinesPlayers]

NextPlayers ==
    \/ CreateGameLine(PlayersProfile)
    \/ PlayerLine(PlayersProfile)
    \/ TagLine(PlayersProfile)
    \/ TagChangeLine(PlayersProfile)
    \/ EndOfInput

SpecPlayers == Init /\ [][NextPlayers]_vars

----------------------------------------------------------------------------
(* The reference-resolver specification: option lines carrying raw entity tokens *)

\* "[id=42 x]"
TokId42 == <<"[", "i", "d", "=", "4", "2", " ", "x", "]">>
\* "[n=a id=7]"
TokId7 == <<"[", "n", "=", "a", " ", "i", "d", "=", "7", "]">>
\* "[id=0]"
TokId0 == <<"[", "i", "d", "=", "0", "]">>
\* "[x]"
TokNoId == <<"[", "x", "]">>
\* "id=5"
TokBare == <<"i", "d", "=", "5">>
\* "[id=5"
TokOpen == <<"[", "i", "d", "=", "5">>

ResolveTokens ==
    {NoStr, TokId42, TokId7, TokId0, <<"0">>, GameEntityTok, <<"1", "2">>,
     <<"0", "0", "7">>, Bob, Alice, TokNoId, TokBare, TokOpen}

ResolveProfile ==
    [max |-> MaxLinesResolve, fmts |-> {"POWERLOG"}, indents |-> {0},
     ents |-> {Bob}, tagvals |-> {<<"ENTITY_ID", <<"2">>>>}, refs |-> ResolveTokens,
     geids |-> {<<"1">>}, ids |-> {<<"2">>}, tags |-> {"ZONE"},
     maxopt |-> MaxOptionLines]

NextResolve ==
    \/ CreateGameLine(ResolveProfile)
    \/ GameEntityLine(ResolveProfile)
    \/ PlayerLine(ResolveProfile)
    \/ TagChangeLine(ResolveProfile)
    \/ OptionsLine(ResolveProfile)
    \/ OptionLine(ResolveProfile)

SpecResolve == Init /\ [][NextResolve]_vars

----------------------------------------------------------------------------
(* The entity-definition specification: attribute-set lines in and out of context *)

TagsProfile ==
    [max |-> MaxLinesTags, fmts |-> {"POWERLOG"}, indents |-> {0},
     ents |-> {Ent4}, tagvals |-> {<<"ZONE", <<"1">>>>}, refs |-> {Ent4},
     geids |-> {<<"1">>}, ids |-> {<<"2">>}, tags |-> {"ZONE", "CURRENT_PLAYER"},
     maxopt |-> MaxLinesTags]

NextTags ==
    \/ CreateGameLine(TagsProfile)
    \/ GameEntityLine(TagsProfile)
    \/ PlayerLine(TagsProfile)
    \/ FullEntityLine(TagsProfile)
    \/ TagLine(TagsProfile)
    \/ TagChangeLine(TagsProfile)

SpecTags == Init /\ [][NextTags]_vars

----------------------------------------------------------------------------
(* The line-format specification: lines of both grammars and of neither *)

FormatsProfile ==
    [max |-> MaxLinesFormats, fmts |-> {"POWERLOG", "OUTPUTLOG", "NEITHER"},
     indents |-> {0}, ents |-> {Ent4}, tagvals |-> {<<"ZONE", <<"1">>>>},
     refs |-> {Ent4}, geids |-> {<<"1">>}, ids |-> {<<"2">>}, tags |-> {"ZONE"},
     maxopt |-> MaxLinesFormats]

NextFormats ==
    \/ CreateGameLine(FormatsProfile)
    \/ FullEntityLine(FormatsProfile)
    \/ ActionStartLine(FormatsProfile)

SpecFormats == Init /\ [][NextFormats]_vars

----------------------------------------------------------------------------
(* The scenario specification: the lines of a small complete match *)

ScenarioProfile ==
    [max |-> MaxLinesScenario, fmts |-> {"POWERLOG"}, indents |-> {1},
     ents |-> {Bob, GameEntityTok},
     tagvals |-> {<<"ENTITY_ID", <<"2">>>>, <<"ZONE", <<"1">>>>},
     refs |-> {Ent4}, geids |-> {<<"1">>}, ids |-> {<<"2">>}, tags |-> {"ZONE"},
     maxopt |-> MaxLinesScenario]

NextScenario ==
    \/ CreateGameLine(ScenarioProfile)
    \/ GameEntityLine(ScenarioProfile)
    \/ PlayerLine(ScenarioProfile)
    \/ TagChangeLine(ScenarioProfile)
    \/ ActionStartLine(ScenarioProfile)
    \/ ActionEndLine(ScenarioProfile)

SpecScenario == Init /\ [][NextScenario]_vars

----------------------------------------------------------------------------
(* The entity-token specification: the identity signals on every kind of token *)

NamesProfile ==
    [max |-> MaxLinesNames, fmts |-> {"POWERLOG"}, indents |-> {0},
     ents |-> {Bob, Ent4, <<"2">>, GameEntityTok},
     tagvals |-> {<<"ENTITY_ID", <<"2">>>>, <<"CURRENT_PLAYER", <<"0">>>>},
     refs |-> {Ent4}, geids |-> {<<"1">>}, ids |-> {<<"2">>, <<"3">>},
     tags |-> {"CURRENT_PLAYER"}, maxopt |-> MaxLinesNames]

NextNames ==
    \/ CreateGameLine(NamesProfile)
    \/ GameEntityLine(NamesProfile)
    \/ PlayerLine(NamesProfile)
    \/ TagLine(NamesProfile)
    \/ TagChangeLine(NamesProfile)

SpecNames == Init /\ [][NextNames]_vars

----------------------------------------------------------------------------
(* The options specification: Options headers with option, subOption and target
   lines *)

OptionsProfile ==
    [max |-> MaxLinesOptions, fmts |-> {"POWERLOG"}, indents |-> {0},
     ents |-> {Ent4}, tagvals |-> {<<"ZONE", <<"1">>>>}, refs |-> {Ent4},
     geids |-> {<<"1">>}, ids |-> {<<"2">>}, tags |-> {"ZONE"},
     maxopt |-> MaxLinesOptions]

NextOptions ==
    \/ CreateGameLine(OptionsProfile)
    \/ OptionsLine(OptionsProfile)
    \/ OptionLine(OptionsProfile)
    \/ SubOptionLine(OptionsProfile)

SpecOptions == Init /\ [][NextOptions]_vars

----------------------------------------------------------------------------
(* Vocabulary of the properties: the input read so far, seen from outside *)

Matching == {"POWERLOG", "OUTPUTLOG"}

\* the line grammar in force before line i of inp: that of the first matching line
LockedBefore(inp, i) ==
    LET fs == {j \in 1..(i - 1) : inp[j].fmt \in Matching}
    IN  IF fs = {} THEN "None"
        ELSE inp[CHOOSE j \in fs : \A k \in fs : j <= k].fmt

\* line i of inp was handed to add_data
ProcessedIn(inp, i) ==
    /\ inp[i].fmt \in Matching
    /\ LockedBefore(inp, i) \in {"None", inp[i].fmt}

Processed(i) == ProcessedIn(input, i)

\* line i is a processed main-event payload of the given rule
IsMain(i, kind) ==
    /\ Processed(i)
    /\ input[i].method = "GameState.DebugPrintPower"
    /\ input[i].data.kind = kind

\* a line was read in this step
LineRead == Len(input') = Len(input) + 1
\* the line read in this step
NewLine == input'[Len(input')]
\* this step read a line that is a processed main-event payload of the given rule
ReadsMain(kind) ==
    /\ LineRead
    /\ ProcessedIn(input', Len(input'))
    /\ NewLine.method = "GameState.DebugPrintPower"
    /\ NewLine.data.kind = kind

\* the parser fields other than the trees' nodes, the warnings and the exception
cursors == <<game, current_node, entity_def, current_choice_node,
             current_send_choice_node, current_options_node, current_option_node,
             last_option_node>>

\* the payload rules whose handler constructs a node
Constructing ==
    {<<"GameState.DebugPrintPower", k>> :
        k \in {"TAG", "TAG_CHANGE", "FULL_ENTITY", "SHOW_ENTITY", "HIDE_ENTITY",
               "ACTION_START", "META_DATA", "GameEntity", "Player", "CREATE_GAME"}}
    \cup {<<"GameState.DebugPrintChoices", k>> : k \in {"CHOICES", "ENTITIES"}}
    \cup {<<"GameState.SendChoices", k>> : k \in {"CHOICETYPE", "ENTITIES"}}
    \cup {<<"GameState.DebugPrintOptions", k>> : k \in {"ENTITY", "OPTION", "SUBOPTION"}}
    \cup {<<"GameState.SendOption", k>> : k \in {"SEND_OPTION"}}

Constructs(i) == Processed(i) /\ <<input[i].method, input[i].data.kind>> \in Constructing

\* the input line that constructed node n: the n-th constructing line
LineOf(n) ==
    CHOOSE i \in 1..Len(input) :
        /\ Constructs(i)
        /\ Cardinality({j \in 1..i : Constructs(j)}) = n

Last(seq) == seq[Len(seq)]

----------------------------------------------------------------------------
(* C1: the number of match trees equals the number of CREATE_GAME lines processed
   so far; each such line appends exactly one new Game node at the end of ast, and
   no other line adds, removes or reorders trees. *)

C1_Count ==
    /\ Len(ast) = Cardinality({i \in 1..Len(input) : IsMain(i, "CREATE_GAME")})
    /\ \A k \in 1..Len(ast) :
          /\ heap[ast[k]].cls = "Game"
          /\ k > 1 => ast[k - 1] < ast[k]
    /\ \A n \in 1..Len(heap) : heap[n].cls = "Game" => \E k \in 1..Len(ast) : ast[k] = n

C1_Step ==
    IF ReadsMain("CREATE_GAME")
    THEN /\ Len(heap') = Len(heap) + 1
         /\ ast' = Append(ast, Len(heap'))
    ELSE ast' = ast

C1_OneTreePerStartMarker == [](C1_Count) /\ [][C1_Step]_vars

\* two matches, with other lines processed between and after the markers
C1_Witness ==
    /\ Len(ast) = 2
    /\ Len(input) = 5
    /\ pc = "read"
    /\ ~IsMain(5, "CREATE_GAME")
    /\ Len(heap[ast[1]].nodes) > 0

----------------------------------------------------------------------------
(* C3: when the current position is a block opened by an ACTION_START line at
   indentation d, no ACTION_END was processed since, and a TAG_CHANGE line arrives
   at an indentation smaller than d, the builder pops exactly one level: the new
   TagChange node is the last child of the block's parent, not a child of the
   block, and the parent is the current position. *)

C3_Step ==
    (/\ ReadsMain("TAG_CHANGE")
     /\ exc' = NoExc
     /\ current_node # Unset
     /\ heap[current_node].cls = "Action"
     /\ NewLine.indent < input[LineOf(current_node)].indent
     /\ \A j \in LineOf(current_node)..Len(input) : ~IsMain(j, "ACTION_END"))
    => (/\ current_node' = heap[current_node].parent
        /\ Last(heap'[heap[current_node].parent].nodes) = Len(heap')
        /\ heap'[Len(heap')].cls = "TagChange"
        /\ heap'[current_node].nodes = heap[current_node].nodes)

C3_PopsOneLevel == [][C3_Step]_vars

----------------------------------------------------------------------------
(* C7: the children of every node are in the order of the input lines that
   created them: an append adds the new node at the end of its parent's child
   sequence, and no line removes, moves or reorders an existing child. *)

C7_Ordered ==
    \A n \in 1..Len(heap) :
        \A k \in 1..Len(heap[n].nodes) :
            /\ heap[n].nodes[k] \in (n + 1)..Len(heap)
            /\ k > 1 => /\ heap[n].nodes[k - 1] < heap[n].nodes[k]
                        /\ LineOf(heap[n].nodes[k - 1]) < LineOf(heap[n].nodes[k])

C7_Step ==
    \A n \in 1..Len(heap) :
        \/ heap'[n].nodes = heap[n].nodes
        \/ /\ Len(heap') = Len(heap) + 1
           /\ heap'[n].nodes = Append(heap[n].nodes, Len(heap'))
           /\ \A m \in 1..Len(heap) : m # n => heap'[m].nodes = heap[m].nodes

C7_ChildOrderIsLineOrder == [](C7_Ordered) /\ [][C7_Step]_vars

\* a block with two children next to a sibling of the block
C7_Witness ==
    \E n \in 1..Len(heap) :
        /\ heap[n].cls = "Action"
        /\ Len(heap[n].nodes) = 2
        /\ Len(heap[heap[n].parent].nodes) = 2

----------------------------------------------------------------------------
(* C8: a main-event payload that matches no rule never raises: in every parser
   state, also before any match was started, it writes one warning and leaves the
   trees, the identity table, the current position and every cursor unchanged; the
   following lines are processed normally. *)

C8_Step ==
    (ReadsMain("UNKNOWN"))
    => (/\ exc' = NoExc
        /\ pc' = "read"
        /\ stderr' = Append(stderr, [handler |-> "data", data |-> NewLine.data.raw])
        /\ UNCHANGED <<ast, heap, cursors>>)

C8_UnknownPayloadOnlyWarns == [][C8_Step]_vars

\* an unknown payload before any match, then a match that is built normally, then
\* another unknown payload
C8_Witness ==
    /\ Len(input) = 4
    /\ IsMain(1, "UNKNOWN")
    /\ IsMain(2, "CREATE_GAME")
    /\ IsMain(4, "UNKNOWN")
    /\ Len(stderr) = 2
    /\ Len(ast) = 1
    /\ Len(heap[ast[1]].nodes) = 1

----------------------------------------------------------------------------
(* C9: an ACTION_END line arriving when the current position is the match root is a
   silent no-op (position, trees, identity table, cursors unchanged, no warning);
   when a block is open it makes the block's parent the current position and
   changes nothing else. *)

C9_Step ==
    (ReadsMain("ACTION_END") /\ current_node # Unset)
    => (/\ exc' = NoExc
        /\ UNCHANGED <<ast, heap, stderr, game, entity_def, current_choice_node,
                       current_send_choice_node, current_options_node,
                       current_option_node, last_option_node>>
        /\ IF heap[current_node].cls = "Action"
           THEN /\ heap[current_node].parent # NoParent
                /\ current_node' = heap[current_node].parent
           ELSE /\ heap[current_node].cls = "Game"
                /\ current_node' = current_node)

C9_BlockEnd == [][C9_Step]_vars

\* a block-end at the root, then a block opened and closed by a second block-end
C9_Witness ==
    /\ Len(input) = 4
    /\ IsMain(1, "CREATE_GAME")
    /\ IsMain(2, "ACTION_END")
    /\ IsMain(3, "ACTION_START")
    /\ IsMain(4, "ACTION_END")
    /\ pc = "read"
    /\ current_node = ast[1]
    /\ stderr = <<>>

----------------------------------------------------------------------------
(* C10: the match root identifier is "1" and is assigned exactly once per match,
   by the GameEntity line: in every reachable state a match's root identifier,
   once set, equals "1", no second assignment happens within the same match, and
   resolving the token "GameEntity" yields "1". *)

C10_Once ==
    \A k \in 1..Len(ast) :
        /\ heap[ast[k]].id \in {NoStr, <<"1">>}
        /\ heap[ast[k]].id_assignments <= 1

\* a META_DATA line whose Data is the token "GameEntity", read during a match
C10_ResolveStep ==
    (/\ ReadsMain("META_DATA")
     /\ NewLine.data.data = GameEntityTok
     /\ game # Unset)
    => /\ exc' = NoExc
       /\ heap'[Len(heap')].cls = "MetaData"
       /\ heap'[Len(heap')].attr.data = RefStr(<<"1">>)

C10_AssignedOnce == [](C10_Once) /\ [][C10_ResolveStep]_vars

----------------------------------------------------------------------------
(* C2: a match tree is sealed when the next CREATE_GAME line begins a new match:
   afterwards no line of any grammar appends a child to, or sets an attribute of,
   a node created before that CREATE_GAME line. *)

C2_Step ==
    \A n \in 1..Len(heap) : (game # Unset /\ n < game) => heap'[n] = heap[n]

C2_EarlierMatchSealed == [][C2_Step]_vars

----------------------------------------------------------------------------
(* C4: if a line creates a node whose entity attribute is a player name without a
   mapping at that moment, and a later line of the same match registers that name
   to identifier v, then once parsing is complete the attribute renders as v; if
   the name has no mapping at the end, it renders as the placeholder string. *)

\* the ENTITY_ID lines after line i, in the same match, that name the player
RegistersAfter(i, name) ==
    {j \in (i + 1)..Len(input) :
        /\ IsMain(j, "TAG_CHANGE")
        /\ input[j].data.tag = "ENTITY_ID"
        /\ input[j].data.entity = name
        /\ \A k \in i..j : ~IsMain(k, "CREATE_GAME")}

C4_DeferredRendersRegistered ==
    pc = "done" =>
        \A n \in 1..Len(heap) :
            (heap[n].cls = "TagChange" /\ heap[n].attr.entity.t = "PlayerID") =>
                LET ref == heap[n].attr.entity
                IN  /\ \A j \in RegistersAfter(LineOf(n), ref.data) :
                          PlayerID_str(heap, ref) = input[j].data.value
                    /\ ~DictHas(heap[ref.game].players, ref.data) =>
                          PlayerID_str(heap, ref) =
                             <<"UNKNOWN PLAYER: ", "'">> \o ref.data \o <<"'">>

----------------------------------------------------------------------------
(* C5: in a match with exactly two known player nodes whose first-player slot holds
   one of them, a TAG_CHANGE line setting CURRENT_PLAYER to "0" on a named entity
   registers that name to the identifier of the other player node, the one that is
   not the first player. *)

\* the situation of the claim, before the line is processed
C5_Situation ==
    /\ ReadsMain("TAG_CHANGE")
    /\ NewLine.data.tag = "CURRENT_PLAYER"
    /\ NewLine.data.value = <<"0">>
    /\ NewLine.data.entity = Bob
    /\ game # Unset
    /\ Len(heap[game].playernodes) = 2
    /\ DictHas(heap[game].playernodes, heap[game].first_player)

\* the player node that is not the first player
C5_Other ==
    CHOOSE id \in {heap[game].playernodes[i].k : i \in 1..2} :
        id # heap[game].first_player

C5_Step ==
    C5_Situation =>
        /\ DictHas(heap'[game].players, Bob)
        /\ DictGet(heap'[game].players, Bob) = C5_Other

C5_RegistersOther == [][C5_Step]_vars

(* C5 as amended: in that situation the line registers the name to the identifier
   held by the first-player slot and attaches the name to that player's node; the
   other player node is recorded as the second player, for a later CURRENT_PLAYER
   "1" line to register. *)

C5_FirstStep ==
    C5_Situation =>
        /\ DictHas(heap'[game].players, Bob)
        /\ DictGet(heap'[game].players, Bob) = heap[game].first_player
        /\ heap'[DictGet(heap[game].playernodes, heap[game].first_player)].attr.name = Bob
        /\ heap'[game].second_player = C5_Other
        /\ heap'[game].first_player = heap[game].first_player

C5_RegistersFirst == [][C5_FirstStep]_vars

\* the line was processed with player 3 in the first-player slot
C5_Witness ==
    /\ pc = "read"
    /\ game # Unset
    /\ Len(heap[game].playernodes) = 2
    /\ heap[game].first_player = <<"3">>
    /\ heap[game].second_player = <<"2">>
    /\ IsMain(Len(input), "TAG_CHANGE")
    /\ Last(input).data.tag = "CURRENT_PLAYER"
    /\ Last(input).data.value = <<"0">>
    /\ DictGet(heap[game].players, Bob) = <<"3">>

----------------------------------------------------------------------------
(* C6: the reference resolver applies its rules in this order to every raw token:
   empty gives no reference; a bracketed descriptor containing id=<digits> gives
   those digits; exactly "0" gives no reference; exactly "GameEntity" gives the
   match root identifier; an all-digit token gives that digit string; any other
   token gives the table's identifier for it when there is one and otherwise a
   deferred reference carrying the name and bound to the match in progress. *)

\* the reference each token of the option lines has to resolve to
C6_Expected(tok) ==
    CASE tok = NoStr -> RefNone
      [] tok = TokId42 -> RefStr(<<"4", "2">>)
      [] tok = TokId7 -> RefStr(<<"7">>)
      [] tok = TokId0 -> RefStr(<<"0">>)
      [] tok = <<"0">> -> RefNone
      [] tok = GameEntityTok -> RefStr(heap[game].id)
      [] tok = <<"1", "2">> -> RefStr(<<"1", "2">>)
      [] tok = <<"0", "0", "7">> -> RefStr(<<"0", "0", "7">>)
      [] OTHER -> IF \E i \in 1..Len(heap[game].players) :
                         heap[game].players[i].k = tok
                  THEN LET i == CHOOSE i \in 1..Len(heap[game].players) :
                                    heap[game].players[i].k = tok
                       IN  RefStr(heap[game].players[i].v)
                  ELSE [t |-> "PlayerID", game |-> game, data |-> tok]

\* an option line read while a match and an Options block are in progress (and,
\* for the token "GameEntity", the root identifier assigned)
C6_Situation ==
    /\ LineRead
    /\ ProcessedIn(input', Len(input'))
    /\ NewLine.method = "GameState.DebugPrintOptions"
    /\ NewLine.data.kind = "OPTION"
    /\ game # Unset
    /\ current_options_node # Unset
    /\ NewLine.data.entity = GameEntityTok => heap[game].id # NoStr

C6_Step ==
    C6_Situation =>
        /\ exc' = NoExc
        /\ Len(heap') = Len(heap) + 1
        /\ heap'[Len(heap')].cls = "Option"
        /\ heap'[Len(heap')].attr.entity = C6_Expected(NewLine.data.entity)

C6_ResolverPriority == [][C6_Step]_vars

\* a registered name was resolved to its identifier by an option line
C6_Witness ==
    /\ pc = "read"
    /\ Len(input) = 5
    /\ Last(input).data.kind = "OPTION"
    /\ Last(input).data.entity = Bob
    /\ heap[Len(heap)].cls = "Option"
    /\ heap[Len(heap)].attr.entity = RefStr(<<"2">>)

----------------------------------------------------------------------------
(* C11: the name-to-identifier table of a match is stable: once a player name is
   mapped to an identifier, no later line (no ENTITY_ID change and no
   CURRENT_PLAYER change, the repeated value 0 / value 1 changes included) changes
   the identifier the name maps to. *)

C11_Step ==
    \A n \in 1..Len(heap) :
        heap[n].cls = "Game" =>
            \A i \in 1..Len(heap[n].players) :
                /\ DictHas(heap'[n].players, heap[n].players[i].k)
                /\ DictGet(heap'[n].players, heap[n].players[i].k) =
                      heap[n].players[i].v

C11_TableStable == [][C11_Step]_vars

----------------------------------------------------------------------------
(* C12: an attribute-set line (tag=X value=Y) arriving when no entity-definition
   context is open, which is the case after every TAG_CHANGE line, is a fatal
   failure and not a warning: no Tag node is appended anywhere and the trees and
   the identity table are as before the line.  When a context is open, the line
   appends exactly one Tag child to the entity being defined. *)

\* the line read in this step is fatal and changes no tree and no table
C12_Fatal ==
    /\ exc' # NoExc
    /\ pc' = "raised"
    /\ stderr' = stderr
    /\ ast' = ast
    /\ \A n \in 1..Len(heap) : heap'[n] = heap[n]
    /\ \A n \in 1..Len(heap') : \A k \in 1..Len(heap'[n].nodes) :
          heap'[n].nodes[k] <= Len(heap)

\* the line read in this step appends one Tag child to the entity being defined
C12_Appends ==
    /\ exc' = NoExc
    /\ Len(heap') = Len(heap) + 1
    /\ heap'[Len(heap')].cls = "Tag"
    /\ heap'[entity_def].nodes = Append(heap[entity_def].nodes, Len(heap'))
    /\ \A n \in 1..Len(heap) : n # entity_def => heap'[n].nodes = heap[n].nodes

C12_ClosesContext == ReadsMain("TAG_CHANGE") => entity_def' = None

C12_Step ==
    /\ C12_ClosesContext
    /\ ReadsMain("TAG") =>
          IF entity_def \in {Unset, None} THEN C12_Fatal ELSE C12_Appends

C12_TagNeedsContext == [][C12_Step]_vars

(* C12 as amended: as above, except that a CURRENT_PLAYER attribute-set line
   requires the entity being defined to be a Player: on any other entity it is
   fatal as well and appends nothing; on a Player it appends the Tag child and
   records that player's id as the first player. *)

C12_AmendedStep ==
    /\ C12_ClosesContext
    /\ ReadsMain("TAG") =>
          IF entity_def \in {Unset, None} THEN C12_Fatal
          ELSE IF NewLine.data.tag = "CURRENT_PLAYER"
          THEN IF heap[entity_def].cls = "Player"
               THEN /\ C12_Appends
                    /\ heap'[game].first_player = heap[entity_def].attr.id
               ELSE C12_Fatal
          ELSE /\ C12_Appends
               /\ \A n \in 1..Len(heap) : n # entity_def => heap'[n] = heap[n]

C12_TagNeedsContextOrPlayer == [][C12_AmendedStep]_vars

\* a Tag appended to an entity, then a TAG_CHANGE, then a Tag line that is fatal
C12_Witness ==
    /\ Len(input) = 5
    /\ IsMain(3, "TAG")
    /\ IsMain(4, "TAG_CHANGE")
    /\ IsMain(5, "TAG")
    /\ exc = "AssertionError"
    /\ \E n \in 1..Len(heap) : heap[n].cls = "FullEntity" /\ Len(heap[n].nodes) = 1

----------------------------------------------------------------------------
(* C13: every payload line dispatched to one of the five grammar handlers that
   matches none of that handler's rules produces a non-fatal warning that
   identifies the raw payload, and processing continues with the next line. *)

C13_Step ==
    (/\ LineRead
     /\ ProcessedIn(input', Len(input'))
     /\ NewLine.data.kind = "UNKNOWN")
    => /\ exc' = NoExc
       /\ pc' = "read"
       /\ Len(stderr') = Len(stderr) + 1
       /\ Last(stderr').data = NewLine.data.raw

C13_UnmatchedPayloadWarns == [][C13_Step]_vars

----------------------------------------------------------------------------
(* C14: the format slot starts unset; the first line that matches one of the two
   line grammars locks that grammar for the rest of the read and is itself
   processed; afterwards a line is processed only if it matches the locked
   grammar, and a line matching only the other grammar, or neither, is skipped
   without changing any state.  Lines of the timestamp-less grammar yield an empty
   timestamp. *)

C14_Slot == input = <<>> => regex = "None"

\* the line read in this step matches the grammar in force
C14_Taken == NewLine.fmt \in Matching /\ regex \in {"None", NewLine.fmt}

C14_Step ==
    LineRead =>
        /\ regex' = IF regex = "None" /\ NewLine.fmt \in Matching
                    THEN NewLine.fmt ELSE regex
        /\ (C14_Taken /\ NewLine.data.kind = "CREATE_GAME") => exc' = NoExc
        /\ (C14_Taken /\ exc' = NoExc) =>
              /\ Len(heap') = Len(heap) + 1
              /\ heap'[Len(heap')].ts =
                    IF NewLine.fmt = "OUTPUTLOG" THEN "" ELSE "12:00:00"
        /\ ~C14_Taken =>
              /\ UNCHANGED <<ast, heap, cursors, stderr, exc>>
              /\ pc' = "read"

C14_FormatLocked == [](C14_Slot) /\ [][C14_Step]_vars

\* a line of neither grammar, a timestamp-less line that locks its grammar, a
\* line of the other grammar that is skipped, and a second timestamp-less line
C14_Witness ==
    /\ Len(input) = 4
    /\ input[1].fmt = "NEITHER"
    /\ input[2].fmt = "OUTPUTLOG"
    /\ input[3].fmt = "POWERLOG"
    /\ input[4].fmt = "OUTPUTLOG"
    /\ regex = "OUTPUTLOG"
    /\ pc = "read"
    /\ Len(heap) = 2
    /\ heap[2].ts = ""

----------------------------------------------------------------------------
(* C15: processing exactly the six-line match made of a root-entity create line,
   a Player line for id 2, a line setting ENTITY_ID on a named entity to "2", an
   ACTION_START line at depth 1, a TAG_CHANGE line at depth 1 on "GameEntity" and
   an ACTION_END line completes without failure and yields one tree with root id
   "1", one Player child with id "2" and one Action child that holds exactly one
   TagChange child whose entity resolves to "1". *)

\* line i of the input is line i of the scenario; the root-entity create line is
\* taken to be either of the two lines that start a match in the log
C15_Is(i) ==
    CASE i = 1 -> input[1].data.kind \in {"CREATE_GAME", "GameEntity"}
      [] i = 2 -> input[2].data.kind = "Player" /\ input[2].data.id = <<"2">>
      [] i = 3 -> /\ input[3].data.kind = "TAG_CHANGE"
                  /\ input[3].data.entity = Bob
                  /\ input[3].data.tag = "ENTITY_ID"
                  /\ input[3].data.value = <<"2">>
      [] i = 4 -> input[4].data.kind = "ACTION_START" /\ input[4].indent = 1
      [] i = 5 -> /\ input[5].data.kind = "TAG_CHANGE"
                  /\ input[5].indent = 1
                  /\ input[5].data.entity = GameEntityTok
                  /\ input[5].data.tag = "ZONE"
      [] i = 6 -> input[6].data.kind = "ACTION_END"
      [] OTHER -> FALSE

\* the children of node n that are of class cls
C15_Children(n, cls) ==
    {k \in 1..Len(heap[n].nodes) : heap[heap[n].nodes[k]].cls = cls}

C15_Result ==
    /\ Len(ast) = 1
    /\ heap[ast[1]].id = <<"1">>
    /\ Cardinality(C15_Children(ast[1], "Player")) = 1
    /\ \A k \in C15_Children(ast[1], "Player") :
          heap[heap[ast[1]].nodes[k]].attr.id = <<"2">>
    /\ Cardinality(C15_Children(ast[1], "Action")) = 1
    /\ \A k \in C15_Children(ast[1], "Action") :
          LET a == heap[ast[1]].nodes[k]
          IN  /\ Len(heap[a].nodes) = 1
              /\ heap[heap[a].nodes[1]].cls = "TagChange"
              /\ heap[heap[a].nodes[1]].attr.entity = RefStr(<<"1">>)

C15_EndToEnd ==
    (\A i \in 1..Len(input) : C15_Is(i)) =>
        /\ exc = NoExc
        /\ Len(input) = 6 => C15_Result

----------------------------------------------------------------------------
(* C16: in every reachable state every key of a match's identity table is a
   player-name token, i.e. not all digits, not starting with "[" and not
   "GameEntity", and so is every name attached to a Player node: the ENTITY_ID
   rule and the CURRENT_PLAYER rule register only for a named entity. *)

C16_Named(tok) ==
    /\ \E i \in 1..Len(tok) : tok[i] \notin Digit
    /\ tok[1] # "["
    /\ tok # GameEntityTok

C16_KeysAreNames ==
    \A n \in 1..Len(heap) :
        /\ heap[n].cls = "Game" =>
              \A i \in 1..Len(heap[n].players) : C16_Named(heap[n].players[i].k)
        /\ (heap[n].cls = "Player" /\ heap[n].attr.name # NoStr) =>
              C16_Named(heap[n].attr.name)

----------------------------------------------------------------------------
(* C17: a TAG_CHANGE line setting ENTITY_ID on a named entity registers
   name -> value in the identity table and appends its TagChange node for every
   value, also one that is not the id of any Player node created so far; the
   line never aborts the parse and never leaves the table updated without the
   node appended. *)

C17_Step ==
    (/\ ReadsMain("TAG_CHANGE")
     /\ NewLine.data.tag = "ENTITY_ID"
     /\ C16_Named(NewLine.data.entity)
     /\ game # Unset)
    => /\ exc' = NoExc
       /\ pc' = "read"
       /\ DictHas(heap'[game].players, NewLine.data.entity)
       /\ DictGet(heap'[game].players, NewLine.data.entity) = NewLine.data.value
       /\ Len(heap') = Len(heap) + 1
       /\ heap'[Len(heap')].cls = "TagChange"
       /\ Last(heap'[current_node'].nodes) = Len(heap')

C17_RegistersAndAppends == [][C17_Step]_vars

----------------------------------------------------------------------------
(* C18: indentation recovery never pops above the match root: whenever the
   current position is the Game root, a TAG_CHANGE line is appended as a child of
   the root whatever its indentation and whatever the indentation of the earlier
   TAG_CHANGE lines appended at the root, and the current position stays the
   root. *)

C18_Step ==
    (/\ ReadsMain("TAG_CHANGE")
     /\ current_node # Unset
     /\ heap[current_node].cls = "Game")
    => /\ exc' = NoExc
       /\ current_node' = current_node
       /\ Len(heap') = Len(heap) + 1
       /\ heap'[Len(heap')].cls = "TagChange"
       /\ heap'[current_node].nodes = Append(heap[current_node].nodes, Len(heap'))

C18_NeverPopsAboveRoot == [][C18_Step]_vars

----------------------------------------------------------------------------
(* C19: in every reachable state the indentation level recorded for each open
   block on the current path equals the indentation of the ACTION_START line that
   opened it, and the root's recorded level is 0: lines processed while the block
   is open, TAG_CHANGE lines in particular, never alter a recorded level. *)

\* the nodes from n up to the root of its tree
RECURSIVE C19_Path(_)
C19_Path(n) ==
    IF heap[n].parent = NoParent THEN {n} ELSE {n} \cup C19_Path(heap[n].parent)

C19_LevelsAsOpened ==
    (current_node # Unset /\ pc = "read") =>
        \A n \in C19_Path(current_node) :
            heap[n].indent_level =
                IF heap[n].cls = "Game" THEN 0 ELSE input[LineOf(n)].indent

----------------------------------------------------------------------------
(* C20: an option line appends one Option under the most recently opened Options
   node; a subOption line appends one SubOption under the most recent Option; a
   target line appends one Target under the most recent option-like node, the
   latest SubOption if a subOption line came after the last option line and the
   Option otherwise.  Hence every Option, SubOption and Target created after an
   Options header is a descendant of that Options node. *)

\* the attached nodes of the given classes
C20_Nodes(classes) ==
    {n \in 1..Len(heap) :
        /\ heap[n].cls \in classes
        /\ \E p \in 1..Len(heap) : \E k \in 1..Len(heap[p].nodes) : heap[p].nodes[k] = n}

\* the most recent node of the given classes created before node n (0 if none)
C20_LatestBefore(classes, n) ==
    SetMax({0} \cup {m \in 1..(n - 1) : heap[m].cls \in classes})

C20_ChildOf(p, n) == p # 0 /\ \E k \in 1..Len(heap[p].nodes) : heap[p].nodes[k] = n

\* n is below h, at most three levels down
C20_Under(h, n) ==
    \/ C20_ChildOf(h, n)
    \/ \E o \in 1..Len(heap) :
          /\ C20_ChildOf(h, o)
          /\ \/ C20_ChildOf(o, n)
             \/ \E so \in 1..Len(heap) : C20_ChildOf(o, so) /\ C20_ChildOf(so, n)

\* each node of the options grammar hangs where its line put it
C20_Attached ==
    /\ \A n \in C20_Nodes({"Option"}) :
          C20_ChildOf(C20_LatestBefore({"Options"}, n), n)
    /\ \A n \in C20_Nodes({"SubOption"}) :
          C20_ChildOf(C20_LatestBefore({"Option"}, n), n)
    /\ \A n \in C20_Nodes({"Target"}) :
          C20_ChildOf(C20_LatestBefore({"Option", "SubOption"}, n), n)

\* the line read in this step appends exactly one node, to parent p
C20_AppendsTo(cls, p) ==
    /\ exc' = NoExc
    /\ Len(heap') = Len(heap) + 1
    /\ heap'[Len(heap')].cls = cls
    /\ heap'[p].nodes = Append(heap[p].nodes, Len(heap'))
    /\ \A m \in 1..Len(heap) : m # p => heap'[m].nodes = heap[m].nodes

C20_Read(kind) ==
    /\ LineRead
    /\ NewLine.method = "GameState.DebugPrintOptions"
    /\ NewLine.data.kind = kind

C20_Step ==
    /\ (C20_Read("OPTION") /\ C20_LatestBefore({"Options"}, Len(heap) + 1) # 0) =>
          C20_AppendsTo("Option", C20_LatestBefore({"Options"}, Len(heap) + 1))
    /\ (/\ C20_Read("SUBOPTION")
        /\ NewLine.data.subop_type = "subOption"
        /\ C20_LatestBefore({"Option"}, Len(heap) + 1) # 0) =>
          C20_AppendsTo("SubOption", C20_LatestBefore({"Option"}, Len(heap) + 1))
    /\ (/\ C20_Read("SUBOPTION")
        /\ NewLine.data.subop_type = "target"
        /\ C20_LatestBefore({"Option", "SubOption"}, Len(heap) + 1) # 0) =>
          C20_AppendsTo("Target",
                        C20_LatestBefore({"Option", "SubOption"}, Len(heap) + 1))

C20_AllUnderHeader ==
    \A n \in C20_Nodes({"Option", "SubOption", "Target"}) :
        C20_LatestBefore({"Options"}, n) # 0 =>
            C20_Under(C20_LatestBefore({"Options"}, n), n)

C20_OptionsAttachment == C20_Attached /\ C20_AllUnderHeader

(* C20 as amended: the three attachment rules as above; an Option is a child of
   the Options header before it, and a SubOption or Target is a descendant of the
   Options header before it when an option line was read after that header
   (otherwise it hangs under an Option or SubOption of an earlier header). *)

C20_UnderHeaderAfterOption ==
    \A n \in C20_Nodes({"Option", "SubOption", "Target"}) :
        LET h == C20_LatestBefore({"Options"}, n)
        IN  (h # 0 /\ (heap[n].cls = "Option" \/ C20_LatestBefore({"Option"}, n) > h))
            => C20_Under(h, n)

C20_OptionsAttachmentAfterOption ==
    [](C20_Attached /\ C20_UnderHeaderAfterOption) /\ [][C20_Step]_vars

\* a target under an Option, then a subOption with a target under it
C20_Witness ==
    /\ pc = "read"
    /\ \E o \in C20_Nodes({"Option"}) :
          /\ Len(heap[o].nodes) = 2
          /\ heap[heap[o].nodes[1]].cls = "Target"
          /\ heap[heap[o].nodes[2]].cls = "SubOption"
          /\ Len(heap[heap[o].nodes[2]].nodes) = 1

====
